---- MODULE Spec2Model ----
(***************************************************************************)
(* Reddit Comment Overkill (reddit-comments-overkill.user.js): the sort    *)
(* cycling controller, the rate-limit governor, the per-comment delete     *)
(* executor, the date filter and the URL cursor, as one state machine.     *)
(*                                                                         *)
(* JavaScript runs to completion: a controller task (one call of main())   *)
(* runs from the timer that resumes it to its next `await sleep(..)`.      *)
(* A task's position is a pc; the pcs named "s_..." are the sleeps, every  *)
(* other pc is a point inside one uninterrupted run of code.  Handlers of  *)
(* the page (button clicks, responses, navigation, the clock) only happen  *)
(* while every task is asleep or ended.                                    *)
(***************************************************************************)
EXTENDS Integers, Sequences, FiniteSets, TLC

(***************************** CONFIG ***************************************)
SORTS == <<"new", "hot", "top", "controversial">>
WAIT_FOR_COMMENTS_MS == 8000
RATE_LIMIT_MAX == 1800000
BASE_RATE_LIMIT_WAIT == 60000
DAYS_TO_PRESERVE == 10
LONG_DELAY_AFTER == <<3, 6>>

(***************************** bounds ***************************************)
\* controller tasks (calls of main()) that can be alive in one page
MaxTasks == 2
\* the clock is read in steps of one BASE_RATE_LIMIT_WAIT, up to MaxClock steps
MaxClock == 4
\* responses the transport delivers in one behaviour
MaxResponses == 6
\* exceptions the page raises inside deleteComment's try block in one behaviour
MaxThrows == 1
\* the "Recent Preserved" counter saturates here (it is unbounded in the code)
MaxPreserved == 3

Tasks == 1..MaxTasks
SortSet == {SORTS[i] : i \in DOMAIN SORTS}
Min(a, b) == IF a < b THEN a ELSE b
ClockStep == BASE_RATE_LIMIT_WAIT
\* the day the run happens on, in days
Today == 4 * DAYS_TO_PRESERVE

VARIABLES
    \* ---- the page (browser, Reddit) ----
    url,            \* location.href: [sort, run, index, page]
    reqUrl,         \* the URL the page was requested with (the server rendered its links from it)
    nav,            \* <<>> or <<target>>: a navigation requested by location.href = ...
    comments,       \* the listing: a sequence of comments in document order
    alive,          \* the comments not deleted yet (indexes of comments)
    opened,         \* the comments whose "are you sure?" form a click on delete opened
    moreLoaded,     \* whether "load more comments" was clicked on this page
    loaded,         \* whether the page has rendered its comments
    now,            \* Date.now(), in ms
    \* ---- the script's variables ----
    running,
    rateLimitActive,
    lastRateLimitTime,
    rateLimitMultiplier,
    preservedCount,
    selKeys,        \* Object.keys(selectedSortTypes).length > 0
    selected,       \* the sorts s with selectedSortTypes[s] true
    modalOpen,      \* the sort selection modal is shown
    \* ---- the controller tasks: one record per call of main() ----
    tasks,
    \* ---- history (written, never read by the program) ----
    begun,          \* comments that received a click on their delete button
    confirmed,      \* comments that received a click on their "yes" link
    doneSorts,      \* sorts the controller marked completed in the current run
    stopped,        \* the operator stopped the run and has not started one since
    resp,           \* the last response: [seq, via, status]
    consec,         \* 429 responses the patched fetch saw since its last other response
    throws,         \* exceptions raised so far
    skipped,        \* comments deleteComment gave up on for want of a confirmation, on this page
    latePolls,      \* tasks that polled the gate with running false and went on waiting
    cursorOp        \* the last call of updateUrlState made on its own: [op, index, before]

envVars == <<url, reqUrl, nav, comments, alive, opened, moreLoaded, loaded, now>>
govVars == <<rateLimitActive, lastRateLimitTime, rateLimitMultiplier>>
scriptVars == <<running, preservedCount, selKeys, selected, modalOpen>>
taskVars == <<tasks>>
histVars == <<begun, confirmed, doneSorts, stopped, resp, consec, throws,
              skipped, latePolls, cursorOp>>
vars == <<envVars, govVars, scriptVars, taskVars, histVars>>

(***************************** the URL cursor *******************************)
\* Number.prototype.toString / parseInt on the values the script writes
DigitStr == <<"0", "1", "2", "3", "4">>
ToStr(n) == DigitStr[n + 1]
\* parseInt(s, 10): NaN (here -1) for an absent parameter or a non-number
parseInt(s) == IF \E n \in 0..4 : DigitStr[n + 1] = s
               THEN CHOOSE n \in 0..4 : DigitStr[n + 1] = s
               ELSE -1

getRunningStateFromUrl == url.run = "true"

getSortIndexFromUrl == IF parseInt(url.index) = -1 THEN 0 ELSE parseInt(url.index)

\* a clear that removes the running flag and forgets the index
updateUrlStatePartial(u, isRunning, sortIndex) ==
    IF isRunning
    THEN [u EXCEPT !.run = "true", !.index = ToStr(sortIndex)]
    ELSE [u EXCEPT !.run = "null"]

\* the URL history.replaceState installs
updateUrlState(u, isRunning, sortIndex) ==
    IF isRunning
    THEN [u EXCEPT !.run = "true", !.index = ToStr(sortIndex)]
    ELSE [u EXCEPT !.run = "null", !.index = "null"]

\* the sort of the page: the URL's sort parameter, else the listing's default
getCurrentSort == IF url.sort # "null" THEN url.sort ELSE "new"

\* the URL gotoSort navigates to
gotoSortUrl(s) ==
    IF running
    THEN [url EXCEPT !.sort = s, !.run = "true", !.index = ToStr(getSortIndexFromUrl)]
    ELSE [url EXCEPT !.sort = s]

IndexOf(seq, x) == IF \E i \in DOMAIN seq : seq[i] = x
                   THEN (CHOOSE i \in DOMAIN seq : seq[i] = x) - 1
                   ELSE -1

(***************************** RATE LIMITING ********************************)
cappedWait == Min(BASE_RATE_LIMIT_WAIT * rateLimitMultiplier, RATE_LIMIT_MAX)

\* a check that never switches the flag off
ActiveNeverCleared == rateLimitActive

\* a check that forgets the multiplier
isRateLimitedBase == rateLimitActive /\ ~(now - lastRateLimitTime >= BASE_RATE_LIMIT_WAIT)

\* isRateLimited(): its result, and the flag it leaves behind
isRateLimited == rateLimitActive /\ ~(now - lastRateLimitTime >= cappedWait)
ActiveAfterCheck == IF rateLimitActive /\ now - lastRateLimitTime >= cappedWait
                    THEN FALSE ELSE rateLimitActive

\* a doubling that forgets the cap
DoubledUncapped(m) == m * 2

\* the multiplier the patched fetch leaves after a 429
DoubledMultiplier(m) == Min(m * 2, RATE_LIMIT_MAX \div BASE_RATE_LIMIT_WAIT)

(***************************** the page's comments **************************)
\* the comments the document shows
Visible == IF loaded
           THEN {i \in alive : comments[i].page = reqUrl.page
                               /\ (comments[i].more => moreLoaded)}
           ELSE {}

RECURSIVE SeqOfSet(_)
SeqOfSet(S) == IF S = {} THEN <<>>
               ELSE LET m == CHOOSE x \in S : \A y \in S : x <= y
                    IN <<m>> \o SeqOfSet(S \ {m})

\* new Date(datetime): [nan, t]; an unparseable attribute gives an Invalid Date
DateOf(c) == IF c.time = "ok" THEN [nan |-> FALSE, t |-> c.created]
             ELSE [nan |-> TRUE, t |-> 0]
\* cutoffDate: today minus DAYS_TO_PRESERVE days
cutoffDate == [nan |-> FALSE, t |-> Today - DAYS_TO_PRESERVE]
\* a > b on Dates: false when either is NaN
DateGt(a, b) == ~a.nan /\ ~b.nan /\ a.t > b.t

\* shouldSkipCommentByDate(commentElement): its result
shouldSkipCommentByDate(c) ==
    IF c.time = "none" THEN FALSE
    ELSE DateGt(DateOf(c), cutoffDate)

\* the filter of getDeleteButtons: whether the comment's delete button is kept
KeepsButton(c) == IF ~c.container THEN TRUE ELSE ~shouldSkipCommentByDate(c)

getDeleteButtons == SeqOfSet({i \in Visible : KeepsButton(comments[i])})

\* what one call of getDeleteButtons adds to preservedCount
SkippedNow == Cardinality({i \in Visible : comments[i].container
                                           /\ shouldSkipCommentByDate(comments[i])})
PreservedAfter == Min(preservedCount + SkippedNow, MaxPreserved)

\* document.querySelectorAll('div.comment, div.comment-body, .thing.comment')
commentElements == {i \in Visible : comments[i].container}

\* the "yes" link deleteComment finds: the first element of the document that
\* matches "a.yes, .option.error.active a" and reads "yes"; 0 when there is none
YesCandidates == {i \in Visible : comments[i].yes = "static"
                                  \/ (comments[i].yes = "onclick" /\ i \in opened)}
FindYes == IF YesCandidates = {} THEN 0
           ELSE CHOOSE i \in YesCandidates : \A j \in YesCandidates : i <= j

\* span.next-button a, and the URL it links to
nextBtn == \E i \in alive : comments[i].page = reqUrl.page + 1
nextHref == [reqUrl EXCEPT !.page = @ + 1]
\* .morecomments, .load-more-comments
moreBtn == loaded /\ ~moreLoaded
           /\ \E i \in alive : comments[i].page = reqUrl.page /\ comments[i].more

(***************************** controller tasks ****************************)
SleepPcs == {"s_gate", "s_wfc", "s_nav30", "s_nav5", "s_loop3", "s_more3",
             "s_300", "s_short", "s_cooldown", "s_long", "s_main5", "s_err10"}

IdleTask == [pc |-> "idle", active |-> <<>>, idx |-> 0, completedSorts |-> {},
             sort |-> "-", deletes |-> <<>>, pos |-> 0, deleted |-> 0,
             success |-> FALSE, didWork |-> FALSE, finished |-> FALSE,
             gateRet |-> "-", wfcRet |-> "-", wfcElapsed |-> 0]
\* a task whose call of main() was just made
NewTask == [IdleTask EXCEPT !.pc = "main"]

\* no task is in the middle of a run of code: timers and handlers may fire
Quiet == \A t \in Tasks : tasks[t].pc \in SleepPcs \cup {"idle"}
FreeTask == CHOOSE t \in Tasks : tasks[t].pc = "idle"
                                 /\ \A u \in Tasks : tasks[u].pc = "idle" => t <= u

\* `await waitForRateLimit()` by task t (its record being r), continuing at ret:
\* isRateLimited() is evaluated; the task sleeps 5 s while it answers true
GateTo(t, r, ret) ==
    /\ rateLimitActive' = ActiveAfterCheck
    /\ tasks' = [tasks EXCEPT ![t] =
                    IF isRateLimited
                    THEN [r EXCEPT !.pc = "s_gate", !.gateRet = ret]
                    ELSE [r EXCEPT !.pc = ret, !.gateRet = "-"]]

\* waitForRateLimit: the 5 s poll is over
GateWake(t) ==
    /\ Quiet
    /\ tasks[t].pc = "s_gate"
    /\ GateTo(t, tasks[t], tasks[t].gateRet)
    /\ latePolls' = IF ~running /\ isRateLimited THEN latePolls \cup {t} ELSE latePolls
    /\ UNCHANGED <<envVars, lastRateLimitTime, rateLimitMultiplier, scriptVars,
                   begun, confirmed, doneSorts, stopped, resp, consec, throws,
                   skipped, cursorOp>>

\* `await waitForComments()` by task t, continuing at ret
WfcTo(r, ret) == [r EXCEPT !.pc = "wfc", !.wfcRet = ret, !.wfcElapsed = 0]

\* waitForComments: the head of its loop
Wfc(t) ==
    /\ tasks[t].pc = "wfc"
    /\ IF tasks[t].wfcElapsed < WAIT_FOR_COMMENTS_MS /\ running
       THEN GateTo(t, tasks[t], "wfc_body")
       ELSE /\ tasks' = [tasks EXCEPT ![t] = [@ EXCEPT !.pc = tasks[t].wfcRet, !.deletes = <<>>,
                                                       !.wfcRet = "-", !.wfcElapsed = 0]]
            /\ UNCHANGED rateLimitActive
    /\ UNCHANGED <<envVars, lastRateLimitTime, rateLimitMultiplier, scriptVars, histVars>>

\* waitForComments: one look at the page
WfcBody(t) ==
    /\ tasks[t].pc = "wfc_body"
    /\ preservedCount' = PreservedAfter
    /\ tasks' = [tasks EXCEPT ![t] =
          IF getDeleteButtons # <<>>
          THEN [@ EXCEPT !.pc = tasks[t].wfcRet, !.deletes = getDeleteButtons,
                         !.wfcRet = "-", !.wfcElapsed = 0]
          ELSE IF commentElements # {}
          THEN [@ EXCEPT !.pc = "s_wfc", !.wfcElapsed = @ + 1500]
          ELSE [@ EXCEPT !.pc = "s_wfc", !.wfcElapsed = @ + 1000]]
    /\ UNCHANGED <<envVars, govVars, running, selKeys, selected, modalOpen, histVars>>

WfcWake(t) ==
    /\ Quiet
    /\ tasks[t].pc = "s_wfc"
    /\ tasks' = [tasks EXCEPT ![t] = [@ EXCEPT !.pc = "wfc"]]
    /\ UNCHANGED <<envVars, govVars, scriptVars, histVars>>

\* a loop head that does not read running
DcLoopDeaf(t) ==
    /\ tasks[t].pc = "dc_loop"
    /\ GateTo(t, tasks[t], "dc_click")
    /\ UNCHANGED <<envVars, lastRateLimitTime, rateLimitMultiplier, scriptVars, histVars>>

(***************************** DELETE SINGLE COMMENT ************************)
\* deleteComment: `while (!success && running)`
DcLoop(t) ==
    /\ tasks[t].pc = "dc_loop"
    /\ IF ~running
       THEN /\ tasks' = [tasks EXCEPT ![t] = [@ EXCEPT !.pc = "pp_del", !.success = FALSE]]
            /\ UNCHANGED rateLimitActive
       ELSE GateTo(t, tasks[t], "dc_click")
    /\ UNCHANGED <<envVars, lastRateLimitTime, rateLimitMultiplier, scriptVars, histVars>>

\* deleteComment: btn.click(), then sleep(300); th: the click throws
DcClick(t) ==
    /\ tasks[t].pc = "dc_click"
    /\ \E th \in BOOLEAN :
         /\ th => throws < MaxThrows
         /\ LET c == tasks[t].deletes[tasks[t].pos] IN
            IF th
            THEN /\ throws' = throws + 1
                 /\ tasks' = [tasks EXCEPT ![t] = [@ EXCEPT !.pc = "s_cooldown"]]
                 /\ UNCHANGED <<begun, opened>>
            ELSE /\ begun' = begun \cup {c}
                 /\ opened' = IF c \in Visible /\ comments[c].yes = "onclick"
                              THEN opened \cup {c} ELSE opened
                 /\ tasks' = [tasks EXCEPT ![t] = [@ EXCEPT !.pc = "s_300"]]
                 /\ UNCHANGED throws
    /\ UNCHANGED <<url, reqUrl, nav, comments, alive, moreLoaded, loaded, now,
                   govVars, scriptVars, confirmed, doneSorts, stopped, resp, consec,
                   skipped, latePolls, cursorOp>>

\* deleteComment: after sleep(300), find "yes" and click it; th: the click throws
Dc300(t) ==
    /\ Quiet
    /\ tasks[t].pc = "s_300"
    /\ \E th \in BOOLEAN :
         /\ th => (throws < MaxThrows /\ FindYes # 0)
         /\ IF FindYes = 0
            THEN /\ tasks' = [tasks EXCEPT ![t] = [@ EXCEPT !.pc = "pp_del", !.success = FALSE]]
                 /\ skipped' = skipped \cup {tasks[t].deletes[tasks[t].pos]}
                 /\ UNCHANGED <<confirmed, alive, opened, throws>>
            ELSE IF th
            THEN /\ throws' = throws + 1
                 /\ tasks' = [tasks EXCEPT ![t] = [@ EXCEPT !.pc = "s_cooldown"]]
                 /\ UNCHANGED <<confirmed, alive, opened, skipped>>
            ELSE /\ confirmed' = confirmed \cup {FindYes}
                 /\ alive' = alive \ {FindYes}
                 /\ opened' = opened \ {FindYes}
                 /\ tasks' = [tasks EXCEPT ![t] = [@ EXCEPT !.pc = "s_short"]]
                 /\ UNCHANGED <<throws, skipped>>
    /\ UNCHANGED <<url, reqUrl, nav, comments, moreLoaded, loaded, now,
                   govVars, scriptVars, begun, doneSorts, stopped, resp, consec,
                   latePolls, cursorOp>>

\* deleteComment: after the short delay, return true
DcShort(t) ==
    /\ Quiet
    /\ tasks[t].pc = "s_short"
    /\ tasks' = [tasks EXCEPT ![t] = [@ EXCEPT !.pc = "pp_del", !.success = TRUE]]
    /\ UNCHANGED <<envVars, govVars, scriptVars, histVars>>

\* deleteComment: after the cooldown of the catch block, loop
DcCooldown(t) ==
    /\ Quiet
    /\ tasks[t].pc = "s_cooldown"
    /\ tasks' = [tasks EXCEPT ![t] = [@ EXCEPT !.pc = "dc_loop"]]
    /\ UNCHANGED <<envVars, govVars, scriptVars, histVars>>

(***************************** PROCESS PAGE *********************************)
\* processPage: `if (!running) return false`, then the gate
PpStart(t) ==
    /\ tasks[t].pc = "pp_start"
    /\ IF ~running
       THEN /\ tasks' = [tasks EXCEPT ![t] = [@ EXCEPT !.pc = "rs_didwork", !.didWork = FALSE]]
            /\ UNCHANGED rateLimitActive
       ELSE GateTo(t, tasks[t], "pp_list")
    /\ UNCHANGED <<envVars, lastRateLimitTime, rateLimitMultiplier, scriptVars, histVars>>

\* processPage: deletes = getDeleteButtons(), waitForComments() when there are none
PpList(t) ==
    /\ tasks[t].pc = "pp_list"
    /\ preservedCount' = PreservedAfter
    /\ tasks' = [tasks EXCEPT ![t] =
          IF getDeleteButtons = <<>>
          THEN WfcTo(@, "pp_check")
          ELSE [@ EXCEPT !.pc = "pp_check", !.deletes = getDeleteButtons]]
    /\ UNCHANGED <<envVars, govVars, running, selKeys, selected, modalOpen, histVars>>

\* the pagination both ends of processPage share: next page, else load more;
\* none: what processPage returns when neither applies
Paginate(t, none) ==
    IF nextBtn /\ running
    THEN /\ nav' = <<nextHref>>
         /\ tasks' = [tasks EXCEPT ![t] = [@ EXCEPT !.pc = "rs_didwork", !.didWork = TRUE,
                                                   !.deletes = <<>>, !.pos = 0, !.deleted = 0]]
         /\ UNCHANGED moreLoaded
    ELSE IF moreBtn /\ running
    THEN /\ moreLoaded' = TRUE
         /\ tasks' = [tasks EXCEPT ![t] = [@ EXCEPT !.pc = "s_more3",
                                                   !.deletes = <<>>, !.pos = 0, !.deleted = 0]]
         /\ UNCHANGED nav
    ELSE /\ tasks' = [tasks EXCEPT ![t] = [@ EXCEPT !.pc = "rs_didwork", !.didWork = none,
                                                   !.deletes = <<>>, !.pos = 0, !.deleted = 0]]
         /\ UNCHANGED <<nav, moreLoaded>>

\* processPage: nothing to delete (lines 356-383), or the start of the delete loop
PpCheck(t) ==
    /\ tasks[t].pc = "pp_check"
    /\ IF tasks[t].deletes = <<>> /\ commentElements = {}
       THEN /\ tasks' = [tasks EXCEPT ![t] = [@ EXCEPT !.pc = "rs_didwork", !.didWork = FALSE]]
            /\ UNCHANGED <<nav, moreLoaded>>
       ELSE IF tasks[t].deletes = <<>>
       THEN Paginate(t, FALSE)
       ELSE /\ tasks' = [tasks EXCEPT ![t] = [@ EXCEPT !.pc = "pp_for", !.pos = 1, !.deleted = 0]]
            /\ UNCHANGED <<nav, moreLoaded>>
    /\ UNCHANGED <<url, reqUrl, comments, alive, opened, loaded, now,
                   govVars, scriptVars, histVars>>

\* processPage: `for (const btn of deletes)`: the stop check, then the gate
PpFor(t) ==
    /\ tasks[t].pc = "pp_for"
    /\ IF tasks[t].pos > Len(tasks[t].deletes) \/ ~running
       THEN /\ tasks' = [tasks EXCEPT ![t] = [@ EXCEPT !.pc = "pp_tail"]]
            /\ UNCHANGED rateLimitActive
       ELSE GateTo(t, tasks[t], "dc_loop")
    /\ UNCHANGED <<envVars, lastRateLimitTime, rateLimitMultiplier, scriptVars, histVars>>

\* processPage: deleteComment returned; count, and maybe the long pause
PpDel(t) ==
    /\ tasks[t].pc = "pp_del"
    /\ \E n \in LONG_DELAY_AFTER[1]..LONG_DELAY_AFTER[2] :
         LET d == tasks[t].deleted + (IF tasks[t].success THEN 1 ELSE 0) IN
         tasks' = [tasks EXCEPT ![t] =
            IF d % n = 0
            THEN [@ EXCEPT !.pc = "s_long", !.deleted = d, !.success = FALSE]
            ELSE [@ EXCEPT !.pc = "pp_for", !.deleted = d, !.success = FALSE, !.pos = @ + 1]]
    /\ UNCHANGED <<envVars, govVars, scriptVars, histVars>>

\* processPage: the long pause is over
PpLong(t) ==
    /\ Quiet
    /\ tasks[t].pc = "s_long"
    /\ tasks' = [tasks EXCEPT ![t] = [@ EXCEPT !.pc = "pp_for", !.pos = @ + 1]]
    /\ UNCHANGED <<envVars, govVars, scriptVars, histVars>>

\* processPage: after the loop (lines 413-431)
PpTail(t) ==
    /\ tasks[t].pc = "pp_tail"
    /\ Paginate(t, TRUE)
    /\ UNCHANGED <<url, reqUrl, comments, alive, opened, loaded, now,
                   govVars, scriptVars, histVars>>

\* processPage: 3 s after the click on "load more", return true
More3(t) ==
    /\ Quiet
    /\ tasks[t].pc = "s_more3"
    /\ tasks' = [tasks EXCEPT ![t] = [@ EXCEPT !.pc = "rs_didwork", !.didWork = TRUE]]
    /\ UNCHANGED <<envVars, govVars, scriptVars, histVars>>

(***************************** PER-SORT EXECUTION ***************************)
\* runSort returns v to main
RsReturn(r, v) == [r EXCEPT !.pc = "m_ret", !.finished = v, !.didWork = FALSE,
                            !.deletes = <<>>]

\* runSort: after its gate: navigate when the page shows another sort, else
\* look for delete buttons
RsCur(t) ==
    /\ tasks[t].pc = "rs_cur"
    /\ IF getCurrentSort # tasks[t].sort
       THEN /\ tasks' = [tasks EXCEPT ![t] = [@ EXCEPT !.pc = "s_nav30"]]
            /\ UNCHANGED preservedCount
       ELSE /\ preservedCount' = PreservedAfter
            /\ tasks' = [tasks EXCEPT ![t] =
                  IF getDeleteButtons = <<>>
                  THEN WfcTo(@, "rs_wfc")
                  ELSE [@ EXCEPT !.pc = "rs_loop"]]
    /\ UNCHANGED <<envVars, govVars, running, selKeys, selected, modalOpen, histVars>>

\* runSort: after the 30 s wait, gotoSort(sort), then sleep(5000)
Nav30(t) ==
    /\ Quiet
    /\ tasks[t].pc = "s_nav30"
    /\ nav' = IF gotoSortUrl(tasks[t].sort) # url THEN <<gotoSortUrl(tasks[t].sort)>> ELSE nav
    /\ tasks' = [tasks EXCEPT ![t] = [@ EXCEPT !.pc = "s_nav5"]]
    /\ UNCHANGED <<url, reqUrl, comments, alive, opened, moreLoaded, loaded, now,
                   govVars, scriptVars, histVars>>

\* runSort: the page is still here 5 s after gotoSort: return false
Nav5(t) ==
    /\ Quiet
    /\ tasks[t].pc = "s_nav5"
    /\ tasks' = [tasks EXCEPT ![t] = RsReturn(@, FALSE)]
    /\ UNCHANGED <<envVars, govVars, scriptVars, histVars>>

\* runSort: waitForComments returned: no comments, the sort is complete
RsWfc(t) ==
    /\ tasks[t].pc = "rs_wfc"
    /\ tasks' = [tasks EXCEPT ![t] =
          IF tasks[t].deletes = <<>> THEN RsReturn(@, TRUE)
          ELSE [@ EXCEPT !.pc = "rs_loop", !.deletes = <<>>]]
    /\ UNCHANGED <<envVars, govVars, scriptVars, histVars>>

\* runSort: `while (running)`, the gate, processPage(); the loop's end returns
\* undefined, which main reads as not finished
RsLoop(t) ==
    /\ tasks[t].pc = "rs_loop"
    /\ IF ~running
       THEN /\ tasks' = [tasks EXCEPT ![t] = RsReturn(@, FALSE)]
            /\ UNCHANGED rateLimitActive
       ELSE GateTo(t, tasks[t], "pp_start")
    /\ UNCHANGED <<envVars, lastRateLimitTime, rateLimitMultiplier, scriptVars, histVars>>

\* runSort: processPage returned didWork
RsDidWork(t) ==
    /\ tasks[t].pc = "rs_didwork"
    /\ tasks' = [tasks EXCEPT ![t] =
          IF ~running \/ ~tasks[t].didWork THEN RsReturn(@, FALSE)
          ELSE [@ EXCEPT !.pc = "s_loop3", !.didWork = FALSE]]
    /\ UNCHANGED <<envVars, govVars, scriptVars, histVars>>

\* runSort: the 3 s between two calls of processPage are over
Loop3(t) ==
    /\ Quiet
    /\ tasks[t].pc = "s_loop3"
    /\ tasks' = [tasks EXCEPT ![t] = [@ EXCEPT !.pc = "rs_loop"]]
    /\ UNCHANGED <<envVars, govVars, scriptVars, histVars>>

(***************************** MAIN LOOP ************************************)
\* activeSorts: the selected sorts in the order of SORTS, all of SORTS when
\* selectedSortTypes has no keys
activeSorts == IF selKeys THEN SelectSeq(SORTS, LAMBDA s : s \in selected) ELSE SORTS

\* the first i with SORTS.indexOf(act[i]) >= k, 0 when there is none
FirstAtLeast(act, k) ==
    IF \E i \in DOMAIN act : IndexOf(SORTS, act[i]) >= k
    THEN (CHOOSE i \in DOMAIN act :
             /\ IndexOf(SORTS, act[i]) >= k
             /\ \A j \in DOMAIN act : IndexOf(SORTS, act[j]) >= k => i <= j) - 1
    ELSE 0

\* idx when resuming from the URL (lines 509-527)
ResumeIndex(act) ==
    LET urlIdx == getSortIndexFromUrl IN
    IF urlIdx > 0 /\ urlIdx <= Len(SORTS)
    THEN LET urlSort == SORTS[(urlIdx - 1) + 1] IN
         IF IndexOf(act, urlSort) # -1 THEN IndexOf(act, urlSort)
         ELSE FirstAtLeast(act, urlIdx - 1)
    ELSE 0

\* idx when starting fresh (lines 528-564)
FreshIndex(act) ==
    LET currentSort == getCurrentSort IN
    IF currentSort \in selected
    THEN (IF IndexOf(act, currentSort) # -1 THEN IndexOf(act, currentSort) ELSE 0)
    ELSE IF ~selKeys
    THEN (IF IndexOf(act, currentSort) # -1 THEN IndexOf(act, currentSort) ELSE 0)
    ELSE FirstAtLeast(act, IndexOf(SORTS, currentSort))

StartIndex(act) == IF getRunningStateFromUrl THEN ResumeIndex(act) ELSE FreshIndex(act)

\* a controller that starts with nothing marked completed
NoneCompleted(act, i) == {}

\* completedSorts as main fills it before its loop (lines 575-583)
InitialCompleted(act, i) == {act[j] : j \in 1..Min(i, Len(act))}

\* main(): from its call to the head of `while (running)`
Main(t) ==
    /\ tasks[t].pc = "main"
    /\ LET act == activeSorts
           i == StartIndex(act)
       IN tasks' = [tasks EXCEPT ![t] =
             IF Len(act) = 0 THEN IdleTask
             ELSE [@ EXCEPT !.pc = "m_loop", !.active = act, !.idx = i,
                            !.completedSorts = InitialCompleted(act, i)]]
    /\ UNCHANGED <<envVars, govVars, scriptVars, histVars>>

\* main: `while (running)`, then the gate
MLoop(t) ==
    /\ tasks[t].pc = "m_loop"
    /\ IF ~running
       THEN /\ tasks' = [tasks EXCEPT ![t] = IdleTask]
            /\ UNCHANGED rateLimitActive
       ELSE GateTo(t, tasks[t], "m_top")
    /\ UNCHANGED <<envVars, lastRateLimitTime, rateLimitMultiplier, scriptVars, histVars>>

\* idx after `while (idx < activeSorts.length && completedSorts.has(activeSorts[idx])) idx++`
SkipCompleted(r) ==
    CHOOSE j \in r.idx..Len(r.active) :
        /\ (j = Len(r.active) \/ r.active[j + 1] \notin r.completedSorts)
        /\ \A k \in r.idx..(j - 1) : r.active[k + 1] \in r.completedSorts

\* main: skip completed sorts; all done: clear the state; else runSort(sort),
\* which starts with the gate
MTop(t) ==
    /\ tasks[t].pc = "m_top"
    /\ LET j == SkipCompleted(tasks[t]) IN
       IF j >= Len(tasks[t].active)
       THEN /\ running' = FALSE
            /\ url' = updateUrlState(url, FALSE, 0)
            /\ tasks' = [tasks EXCEPT ![t] = IdleTask]
            /\ UNCHANGED rateLimitActive
       ELSE /\ GateTo(t, [tasks[t] EXCEPT !.idx = j, !.sort = tasks[t].active[j + 1]], "rs_cur")
            /\ UNCHANGED <<running, url>>
    /\ UNCHANGED <<reqUrl, nav, comments, alive, opened, moreLoaded, loaded, now,
                   lastRateLimitTime, rateLimitMultiplier,
                   preservedCount, selKeys, selected, modalOpen, histVars>>

\* main: runSort returned `finished` (lines 612-637)
MRet(t) ==
    /\ tasks[t].pc = "m_ret"
    /\ LET r == tasks[t] IN
       IF ~running
       THEN /\ tasks' = [tasks EXCEPT ![t] = IdleTask]
            /\ UNCHANGED <<running, url, doneSorts>>
       ELSE LET i == IF r.finished THEN r.idx + 1 ELSE r.idx
                done == IF r.finished THEN r.completedSorts \cup {r.sort} ELSE r.completedSorts
                u == IF r.finished
                     THEN updateUrlState(url, running, IndexOf(SORTS, r.sort) + 1)
                     ELSE url
            IN /\ doneSorts' = IF r.finished THEN doneSorts \cup {r.sort} ELSE doneSorts
               /\ IF i >= Len(r.active)
                  THEN /\ running' = FALSE
                       /\ url' = updateUrlState(u, FALSE, 0)
                       /\ tasks' = [tasks EXCEPT ![t] = IdleTask]
                  ELSE /\ running' = running
                       /\ url' = u
                       /\ tasks' = [tasks EXCEPT ![t] =
                             [r EXCEPT !.pc = "s_main5", !.idx = i, !.completedSorts = done,
                                       !.finished = FALSE, !.sort = "-"]]
    /\ UNCHANGED <<reqUrl, nav, comments, alive, opened, moreLoaded, loaded, now,
                   govVars, preservedCount, selKeys, selected, modalOpen,
                   begun, confirmed, stopped, resp, consec, throws,
                   skipped, latePolls, cursorOp>>

\* main: the 5 s at the end of the loop body are over
Main5(t) ==
    /\ Quiet
    /\ tasks[t].pc = "s_main5"
    /\ tasks' = [tasks EXCEPT ![t] = [@ EXCEPT !.pc = "m_loop"]]
    /\ UNCHANGED <<envVars, govVars, scriptVars, histVars>>

(***************************** BUTTON, MODAL ********************************)
\* btn.onclick while running is false: running = true, then main() at once when
\* the URL says running, else the sort selection modal
BtnStart ==
    /\ Quiet /\ ~running /\ ~modalOpen /\ nav = <<>>
    /\ \E t \in Tasks : tasks[t].pc = "idle"
    /\ running' = TRUE
    /\ IF getRunningStateFromUrl
       THEN /\ selKeys' = TRUE
            /\ selected' = selected \cup SortSet
            /\ tasks' = [tasks EXCEPT ![FreeTask] = NewTask]
            /\ stopped' = FALSE
            /\ UNCHANGED modalOpen
       ELSE /\ modalOpen' = TRUE
            /\ UNCHANGED <<selKeys, selected, tasks, stopped>>
    /\ UNCHANGED <<envVars, govVars, preservedCount,
                   begun, confirmed, doneSorts, resp, consec, throws,
                   skipped, latePolls, cursorOp>>

\* btn.onclick while running is true: running = false, updateUrlState(false, 0)
BtnStop ==
    /\ Quiet /\ running /\ ~modalOpen /\ nav = <<>>
    /\ running' = FALSE
    /\ url' = updateUrlState(url, FALSE, 0)
    /\ stopped' = TRUE
    /\ UNCHANGED <<reqUrl, nav, comments, alive, opened, moreLoaded, loaded, now,
                   govVars, preservedCount, selKeys, selected, modalOpen, tasks,
                   begun, confirmed, doneSorts, resp, consec, throws,
                   skipped, latePolls, cursorOp>>

\* startBtn.onclick with the sorts sel checked
ModalStart(sel) ==
    /\ Quiet /\ modalOpen
    /\ \E t \in Tasks : tasks[t].pc = "idle"
    /\ selKeys' = TRUE
    /\ selected' = sel
    /\ running' = TRUE
    /\ url' = updateUrlState(url, TRUE, 0)
    /\ modalOpen' = FALSE
    /\ tasks' = [tasks EXCEPT ![FreeTask] = NewTask]
    /\ stopped' = FALSE
    /\ doneSorts' = {}
    /\ UNCHANGED <<reqUrl, nav, comments, alive, opened, moreLoaded, loaded, now,
                   govVars, preservedCount, begun, confirmed, resp, consec, throws,
                   skipped, latePolls, cursorOp>>

\* cancelBtn.onclick
ModalCancel ==
    /\ Quiet /\ modalOpen
    /\ running' = FALSE
    /\ modalOpen' = FALSE
    /\ UNCHANGED <<envVars, govVars, preservedCount, selKeys, selected, tasks, histVars>>

(***************************** the page *************************************)
\* a requested navigation completes: the document is replaced, the script
\* starts again from the first line and resumes when the URL says running
Reload ==
    /\ Quiet /\ nav # <<>>
    /\ url' = nav[1]
    /\ reqUrl' = nav[1]
    /\ nav' = <<>>
    /\ opened' = {}
    /\ moreLoaded' = FALSE
    /\ loaded' \in BOOLEAN
    /\ rateLimitActive' = FALSE
    /\ lastRateLimitTime' = 0
    /\ rateLimitMultiplier' = 1
    /\ preservedCount' = 0
    /\ modalOpen' = FALSE
    /\ running' = (nav[1].run = "true")
    /\ selKeys' = (nav[1].run = "true")
    /\ selected' = IF nav[1].run = "true" THEN SortSet ELSE {}
    /\ tasks' = [t \in Tasks |-> IF t = 1 /\ nav[1].run = "true" THEN NewTask ELSE IdleTask]
    /\ consec' = 0
    /\ skipped' = {}
    /\ UNCHANGED <<comments, alive, now, begun, confirmed, doneSorts, stopped, resp, throws,
                   latePolls, cursorOp>>

\* the page renders its comments
DomLoad ==
    /\ Quiet /\ ~loaded
    /\ loaded' = TRUE
    /\ UNCHANGED <<url, reqUrl, nav, comments, alive, opened, moreLoaded, now,
                   govVars, scriptVars, tasks, histVars>>

\* time passes
Advance ==
    /\ Quiet /\ now < MaxClock * ClockStep
    /\ now' = now + ClockStep
    /\ UNCHANGED <<url, reqUrl, nav, comments, alive, opened, moreLoaded, loaded,
                   govVars, scriptVars, tasks, histVars>>

(***************************** transport ************************************)
\* a response comes back through the patched window.fetch
FetchResponse(status) ==
    /\ Quiet
    /\ resp' = [seq |-> resp.seq + 1, via |-> "fetch", status |-> status]
    /\ IF status = 429
       THEN /\ rateLimitActive' = TRUE
            /\ lastRateLimitTime' = now
            /\ rateLimitMultiplier' = DoubledMultiplier(rateLimitMultiplier)
            /\ consec' = consec + 1
       ELSE /\ rateLimitMultiplier' = IF rateLimitMultiplier > 1 THEN 1 ELSE rateLimitMultiplier
            /\ consec' = 0
            /\ UNCHANGED <<rateLimitActive, lastRateLimitTime>>
    /\ UNCHANGED <<envVars, scriptVars, tasks, begun, confirmed, doneSorts, stopped, throws,
                   skipped, latePolls, cursorOp>>

\* a response comes back through XMLHttpRequest, which the script does not patch
XhrResponse(status) ==
    /\ Quiet
    /\ resp' = [seq |-> resp.seq + 1, via |-> "xhr", status |-> status]
    /\ UNCHANGED <<envVars, govVars, scriptVars, tasks,
                   begun, confirmed, doneSorts, stopped, consec, throws,
                   skipped, latePolls, cursorOp>>

(***************************** listings **************************************)
\* a comment of the listing: whether its delete button lies inside a comment
\* element, its <time datetime> ("ok": a date, "bad": not a date, "none": no
\* time element), the day it was made, how its "yes" link gets into the
\* document ("static": always there, "onclick": when delete is clicked,
\* "none": never), its page, and whether it only shows after "load more"
Cm(time, created, yes, page) ==
    [container |-> TRUE, time |-> time, created |-> created, yes |-> yes,
     page |-> page, more |-> FALSE]
RecentDay == Today - 3
CutoffDay == Today - DAYS_TO_PRESERVE
OldDay == Today - 30

\* the kinds of comment a listing is made of
Kinds ==
    { Cm("ok", RecentDay, "static", 1), Cm("ok", RecentDay, "onclick", 1),
      Cm("ok", CutoffDay, "onclick", 1),
      Cm("ok", OldDay, "static", 1), Cm("ok", OldDay, "onclick", 1),
      Cm("ok", OldDay, "none", 1),
      Cm("none", 0, "onclick", 1), Cm("bad", 0, "onclick", 1),
      [Cm("ok", RecentDay, "onclick", 1) EXCEPT !.container = FALSE] }

\* listings of the controller specification: every page of two comments, and
\* listings with a second page and with a "load more" button
RunListings ==
    { <<a, b>> : a \in Kinds, b \in Kinds }
    \cup { <<Cm("ok", OldDay, "onclick", 1), Cm("ok", OldDay, "onclick", 2)>>,
           <<Cm("ok", RecentDay, "onclick", 1), Cm("ok", OldDay, "onclick", 2)>>,
           <<Cm("ok", OldDay, "onclick", 1),
             [Cm("ok", OldDay, "onclick", 1) EXCEPT !.more = TRUE]>>,
           <<Cm("ok", RecentDay, "onclick", 1),
             [Cm("ok", OldDay, "onclick", 1) EXCEPT !.more = TRUE]>>,
           <<>> }

\* the sort selections the operator makes in the modal
RunSelections == {SortSet, {"hot", "top"}, {}}

\* listings and selections of the specification with stop and cancel
OpListings ==
    { <<Cm("ok", OldDay, "onclick", 1), [Cm("ok", OldDay, "onclick", 1) EXCEPT !.more = TRUE]>>,
      <<Cm("ok", RecentDay, "static", 1)>> }

StartUrl(s) == [sort |-> s, run |-> "null", index |-> "null", page |-> 1]

\* the page as the operator opened it, the script loaded and idle
InitWith(listings, startSorts) ==
    /\ url \in {StartUrl(s) : s \in startSorts}
    /\ reqUrl = url
    /\ nav = <<>>
    /\ comments \in listings
    /\ alive = DOMAIN comments
    /\ opened = {}
    /\ moreLoaded = FALSE
    /\ loaded = TRUE
    /\ now = 0
    /\ running = FALSE
    /\ rateLimitActive = FALSE
    /\ lastRateLimitTime = 0
    /\ rateLimitMultiplier = 1
    /\ preservedCount = 0
    /\ selKeys = FALSE
    /\ selected = {}
    /\ modalOpen = FALSE
    /\ tasks = [t \in Tasks |-> IdleTask]
    /\ begun = {}
    /\ confirmed = {}
    /\ doneSorts = {}
    /\ stopped = FALSE
    /\ resp = [seq |-> 0, via |-> "none", status |-> 0]
    /\ consec = 0
    /\ throws = 0
    /\ skipped = {}
    /\ latePolls = {}
    /\ cursorOp = [op |-> "none", index |-> 0, before |-> url]

\* one step of a controller task
TaskStep ==
    \E t \in Tasks :
        \/ Main(t) \/ MLoop(t) \/ MTop(t) \/ MRet(t) \/ Main5(t)
        \/ RsCur(t) \/ Nav30(t) \/ Nav5(t) \/ RsWfc(t) \/ RsLoop(t) \/ RsDidWork(t) \/ Loop3(t)
        \/ PpStart(t) \/ PpList(t) \/ PpCheck(t) \/ PpFor(t) \/ PpDel(t) \/ PpLong(t)
        \/ PpTail(t) \/ More3(t)
        \/ DcLoop(t) \/ DcClick(t) \/ Dc300(t) \/ DcShort(t) \/ DcCooldown(t)
        \/ Wfc(t) \/ WfcBody(t) \/ WfcWake(t)

\* a task asleep in waitForRateLimit polls again (only after a 429)
GateStep == \E t \in Tasks : GateWake(t)

(***************************** specifications *******************************)
\* one operator who starts runs and never stops them: the controller, its
\* navigations and reloads
Init == InitWith(RunListings, {"null", "top"})
Next ==
    \/ TaskStep
    \/ BtnStart
    \/ \E sel \in RunSelections : ModalStart(sel)
    \/ Reload \/ DomLoad
Spec == Init /\ [][Next]_vars

\* the operator also stops, cancels and starts again
InitOp == InitWith(OpListings, {"null"})
NextOp ==
    \/ TaskStep
    \/ BtnStart \/ BtnStop \/ ModalCancel
    \/ \E sel \in {SortSet} : ModalStart(sel)
    \/ Reload \/ DomLoad
SpecOp == InitOp /\ [][NextOp]_vars

\* the run of claim C3: nobody stops it, no response throttles it, and every
\* timer, navigation and rendering that is due happens
LiveListings ==
    { <<>>,
      <<Cm("ok", OldDay, "onclick", 1), Cm("ok", OldDay, "onclick", 1),
        Cm("ok", OldDay, "onclick", 1)>>,
      <<Cm("ok", OldDay, "onclick", 1), [Cm("ok", OldDay, "onclick", 1) EXCEPT !.more = TRUE]>> }
InitLive == InitWith(LiveListings, {"null"})
NextLive ==
    \/ TaskStep
    \/ BtnStart
    \/ \E sel \in {SortSet} : ModalStart(sel)
    \/ Reload \/ DomLoad
SpecLive == /\ InitLive /\ [][NextLive]_vars
            /\ WF_vars(TaskStep) /\ WF_vars(BtnStart)
            /\ WF_vars(\E sel \in {SortSet} : ModalStart(sel))
            /\ WF_vars(Reload) /\ WF_vars(DomLoad)

\* the governor: responses through fetch and XMLHttpRequest, the clock, and a
\* controller on an account without comments polling the gate
GovTaskStep ==
    \E t \in Tasks :
        \/ Main(t) \/ MLoop(t) \/ MTop(t) \/ MRet(t)
        \/ RsCur(t) \/ RsWfc(t)
        \/ Wfc(t) \/ WfcBody(t) \/ WfcWake(t)
InitGov == InitWith({<<>>}, {"null"})
NextGov ==
    \/ GovTaskStep \/ GateStep
    \/ BtnStart
    \/ \E sel \in {{"new"}} : ModalStart(sel)
    \/ (resp.seq < MaxResponses /\ \E status \in {200, 429} : FetchResponse(status))
    \/ (resp.seq < MaxResponses /\ \E status \in {200, 429} : XhrResponse(status))
    \/ Advance
SpecGov == InitGov /\ [][NextGov]_vars

(***************************** properties ***********************************)
\* a comment the age filter protects: its timestamp is there, parses, and is
\* later than the cutoff
Protected(c) == c.container /\ c.time = "ok" /\ c.created > Today - DAYS_TO_PRESERVE
\* a comment whose timestamp is missing, cannot be located, or does not parse
Undated(c) == ~c.container \/ c.time \in {"none", "bad"}
\* the comments that received a click of the delete executor
Clicked == begun \cup confirmed

\* C1: no begin-delete or confirm-delete click is ever issued on a comment
\* whose creation time is later than now minus the preserve window.
C1_AgeProtection == \A i \in Clicked : ~Protected(comments[i])

\* C2: a comment whose timestamp is missing, cannot be located or does not
\* parse is treated as protected: the delete executor never clicks on it.
C2_FailSafeProtection == \A i \in Clicked : ~Undated(comments[i])

\* a controller is at work on a run
RunActive == running /\ \E t \in Tasks : tasks[t].pc # "idle"
\* phase Complete: the run is over, the cursor cleared, every selected sort
\* marked completed
RunComplete == /\ ~running /\ \A t \in Tasks : tasks[t].pc = "idle"
               /\ url.run = "null" /\ url.index = "null"
               /\ doneSorts = SortSet

\* C3: a run that is never stopped, on listings with finitely many comments
\* and without lasting throttling, eventually marks every selected sort
\* completed and reaches phase Complete.
C3_PartitionCompleteness == RunActive ~> RunComplete

\* C4: a controller that starts from the persisted cursor is, at the head of
\* its loop, past every sort the run has marked completed: it treats them as
\* completed and resumes at the first sort that is not.
C4_ResumeFidelity ==
    \A t \in Tasks : tasks[t].pc = "m_loop" => doneSorts \subseteq tasks[t].completedSorts

\* the steps in which deleteComment clicks: on the delete button, on "yes"
BeginClick(t) == tasks[t].pc = "dc_click" /\ tasks'[t].pc = "s_300"
ConfirmClick(t) == tasks[t].pc = "s_300" /\ tasks'[t].pc = "s_short"

\* C5: once the operator has stopped the run (running is false), a controller
\* task that resumes from a suspension point issues no begin-delete and no
\* confirm-delete click.
C5_StopHaltsDeletions ==
    [][\A t \in Tasks : (BeginClick(t) \/ ConfirmClick(t)) => running]_vars

\* C6: after the operator stopped the run, and until the operator starts a
\* new one, the URL holds neither the running flag nor the sort index: no
\* suspended controller task writes the cursor again.  (While the sort
\* selection modal is open a start is under way; those states are left out.)
C6_CursorStaysCleared ==
    (stopped /\ ~modalOpen) => (url.run = "null" /\ url.index = "null")

\* C7: at most one controller task exists at any time.
C7_SingleController == Cardinality({t \in Tasks : tasks[t].pc # "idle"}) <= 1

\* a response that came back through the patched fetch, with this status
FetchStep(status) == resp'.seq # resp.seq /\ resp'.via = "fetch" /\ resp'.status = status
MultiplierCap == RATE_LIMIT_MAX \div BASE_RATE_LIMIT_WAIT

\* C8: a 429 that follows another 429 without a response of another status in
\* between strictly increases the backoff multiplier until the wait reaches
\* its cap, and leaves it there afterwards; a response of any other status
\* sets the multiplier back to 1.
C8_BackoffMonotonicity ==
    [][ /\ (FetchStep(429) /\ consec >= 1) =>
              IF rateLimitMultiplier < MultiplierCap
              THEN /\ rateLimitMultiplier' > rateLimitMultiplier
                   /\ rateLimitMultiplier' <= MultiplierCap
              ELSE rateLimitMultiplier' = MultiplierCap
        /\ FetchStep(200) => rateLimitMultiplier' = 1 ]_vars
\* six 429 in a row: the multiplier reached the cap and stayed
C8_Witness == consec >= 6 /\ rateLimitMultiplier = MultiplierCap /\ resp.via = "fetch"

\* the wait C9 states after the n-th 429 in a row, counted from multiplier 1
StatedWait(n) == Min(BASE_RATE_LIMIT_WAIT * 2 ^ (n - 1), RATE_LIMIT_MAX)

\* C9: after the n-th 429 in a row the gate holds a controller for
\* min(60000 * 2^(n-1), 1800000) ms from that 429: it is limited before that
\* much time has passed and free once it has.
C9_BackoffSchedule ==
    \A t \in Tasks :
        (tasks[t].pc = "s_gate" /\ rateLimitActive /\ consec >= 1)
            => (isRateLimited <=> now - lastRateLimitTime < StatedWait(consec))

\* C10: every response, whatever carried it, updates the governor: a 429
\* sets the limited flag, the time of the limit and doubles the multiplier;
\* any other status sets the multiplier back to 1.
C10_ThrottleObservation ==
    [][ resp'.seq # resp.seq =>
            IF resp'.status = 429
            THEN /\ rateLimitActive'
                 /\ lastRateLimitTime' = now
                 /\ rateLimitMultiplier' = DoubledMultiplier(rateLimitMultiplier)
            ELSE rateLimitMultiplier' = 1 ]_vars

\* what a script instance loaded on URL u reads from the cursor
runningOf(u) == u.run = "true"
sortIndexOf(u) == IF parseInt(u.index) = -1 THEN 0 ELSE parseInt(u.index)

\* a step in which the script assigns location.href
NavRequested == nav' # nav /\ nav' # <<>>
\* a step in which the page of a requested navigation loads
PageLoads == nav # <<>> /\ nav' = <<>>

\* C11: whenever a running controller requests a navigation, to another sort
\* or to the next page, the URL it navigates to carries running = true and
\* the sort index of the current cursor, and the script loaded on a URL with
\* the running flag runs main() at once, without the operator.
C11_RunSurvivesNavigation ==
    [][ /\ (running /\ NavRequested) =>
              (runningOf(nav'[1]) /\ sortIndexOf(nav'[1]) = getSortIndexFromUrl)
        /\ (PageLoads /\ runningOf(nav[1])) =>
              (running' /\ \E t \in Tasks : tasks'[t].pc = "main") ]_vars

\* a step in which main marks a sort completed
SortMarked == doneSorts' \ doneSorts # {}

\* C12: a sort is marked completed only when its current page shows no
\* eligible comment and the listing has neither a next page nor more comments
\* to load; a first page of recent comments only does not complete the sort
\* while a next page exists.
C12_NoEligibleMissed ==
    [][ SortMarked => (getDeleteButtons = <<>> /\ ~nextBtn /\ ~moreBtn) ]_vars

(***************************** the cursor on its own ************************)
\* URLs the page may be opened with: any sort and page, and cursor parameters
\* the script wrote, somebody edited, or nobody set
UrlSpace ==
    [sort : {"null"} \cup SortSet,
     run : {"null", "true", "false"},
     index : {"null", "x"} \cup {DigitStr[n] : n \in DOMAIN DigitStr},
     page : {1, 2}]

InitUrl ==
    /\ url \in UrlSpace
    /\ reqUrl = url
    /\ nav = <<>>
    /\ comments = <<>>
    /\ alive = {}
    /\ opened = {}
    /\ moreLoaded = FALSE
    /\ loaded = TRUE
    /\ now = 0
    /\ running = FALSE
    /\ rateLimitActive = FALSE
    /\ lastRateLimitTime = 0
    /\ rateLimitMultiplier = 1
    /\ preservedCount = 0
    /\ selKeys = FALSE
    /\ selected = {}
    /\ modalOpen = FALSE
    /\ tasks = [t \in Tasks |-> IdleTask]
    /\ begun = {}
    /\ confirmed = {}
    /\ doneSorts = {}
    /\ stopped = FALSE
    /\ resp = [seq |-> 0, via |-> "none", status |-> 0]
    /\ consec = 0
    /\ throws = 0
    /\ skipped = {}
    /\ latePolls = {}
    /\ cursorOp = [op |-> "none", index |-> 0, before |-> url]

\* updateUrlState(true, i) with an index the script passes: 0, or 1 + a
\* position in SORTS
UrlSave(i) ==
    /\ url' = updateUrlState(url, TRUE, i)
    /\ cursorOp' = [op |-> "save", index |-> i, before |-> url]
    /\ UNCHANGED <<reqUrl, nav, comments, alive, opened, moreLoaded, loaded, now,
                   govVars, scriptVars, tasks,
                   begun, confirmed, doneSorts, stopped, resp, consec, throws,
                   skipped, latePolls>>

\* updateUrlState(false, i)
UrlClear(i) ==
    /\ url' = updateUrlState(url, FALSE, i)
    /\ cursorOp' = [op |-> "clear", index |-> i, before |-> url]
    /\ UNCHANGED <<reqUrl, nav, comments, alive, opened, moreLoaded, loaded, now,
                   govVars, scriptVars, tasks,
                   begun, confirmed, doneSorts, stopped, resp, consec, throws,
                   skipped, latePolls>>

NextUrl ==
    \/ \E i \in 0..Len(SORTS) : UrlSave(i)
    \/ \E i \in 0..Len(SORTS) : UrlClear(i)
SpecUrl == InitUrl /\ [][NextUrl]_vars

\* the parameters of a URL that are not the cursor's
OtherParams(u) == <<u.sort, u.page>>

\* C13: after updateUrlState(true, i) a load reads running = true and sort
\* index i, for every index i; after updateUrlState(false, _) both cursor
\* parameters are gone and a load reads running = false and index 0; both
\* calls leave every other parameter of the URL as it was.
C13_CursorRoundTrip ==
    /\ cursorOp.op = "save" =>
          /\ runningOf(url) /\ sortIndexOf(url) = cursorOp.index
          /\ OtherParams(url) = OtherParams(cursorOp.before)
    /\ cursorOp.op = "clear" =>
          /\ url.run = "null" /\ url.index = "null"
          /\ ~runningOf(url) /\ sortIndexOf(url) = 0
          /\ OtherParams(url) = OtherParams(cursorOp.before)
\* a cursor with index 3 on the "top" listing was cleared
C13_Witness ==
    /\ cursorOp.op = "clear"
    /\ runningOf(cursorOp.before) /\ sortIndexOf(cursorOp.before) = 3
    /\ url.sort = "top"

\* the protected comments of the page this script instance was loaded on
ProtectedOnPage == {i \in DOMAIN comments : comments[i].page = reqUrl.page
                                            /\ Protected(comments[i])}

\* C14: when a sort is marked completed the preserved counter is the number
\* of distinct protected comments met: each is counted once, so the counter
\* does not exceed the number of protected comments of the page (one, for a
\* page with one 3-day-old and one 30-day-old comment).
C14_CountersExact ==
    [][ SortMarked => preservedCount' <= Cardinality(ProtectedOnPage) ]_vars

\* C15: in every state 1 <= rateLimitMultiplier <= RATE_LIMIT_MAX /
\* BASE_RATE_LIMIT_WAIT (30), and the wait isRateLimited computes is
\* min(BASE_RATE_LIMIT_WAIT * multiplier, RATE_LIMIT_MAX), between 60 s and
\* 30 min.
C15_GovernorBounds ==
    /\ 1 <= rateLimitMultiplier /\ rateLimitMultiplier <= MultiplierCap
    /\ MultiplierCap = 30
    /\ cappedWait = Min(BASE_RATE_LIMIT_WAIT * rateLimitMultiplier, RATE_LIMIT_MAX)
    /\ 60000 <= cappedWait /\ cappedWait <= 1800000
\* a controller waits at the gate with the multiplier at its cap
C15_Witness ==
    /\ rateLimitMultiplier = MultiplierCap /\ cappedWait = RATE_LIMIT_MAX
    /\ \E t \in Tasks : tasks[t].pc = "s_gate"

(***************************** the gate and the deletions *******************)
\* fetch responses in the specifications of the gate
MaxGateResponses == 2

\* a run over one old comment on the page's own sort, throttled
GateTaskStep ==
    \E t \in Tasks :
        \/ Main(t) \/ MLoop(t) \/ MTop(t) \/ MRet(t) \/ Main5(t)
        \/ RsCur(t) \/ RsWfc(t) \/ RsLoop(t) \/ RsDidWork(t) \/ Loop3(t)
        \/ PpStart(t) \/ PpList(t) \/ PpCheck(t) \/ PpFor(t) \/ PpDel(t) \/ PpTail(t)
        \/ DcLoop(t) \/ DcClick(t) \/ Dc300(t) \/ DcShort(t) \/ DcCooldown(t)
        \/ Wfc(t) \/ WfcBody(t) \/ WfcWake(t)
InitGate == InitWith({ <<Cm("ok", OldDay, "onclick", 1)>> }, {"null"})
NextGate ==
    \/ GateTaskStep \/ GateStep
    \/ BtnStart
    \/ \E sel \in {{"new"}} : ModalStart(sel)
    \/ (resp.seq < MaxGateResponses /\ \E status \in {200, 429} : FetchResponse(status))
    \/ Advance
SpecGate == InitGate /\ [][NextGate]_vars

\* the governor is active and its wait has not run out
Unexpired == rateLimitActive
             /\ now - lastRateLimitTime < Min(BASE_RATE_LIMIT_WAIT * rateLimitMultiplier,
                                              RATE_LIMIT_MAX)
\* steps in which waitForRateLimit returns to deleteComment: from its sleep,
\* or at once
GateReturns(t) == \/ tasks[t].pc = "s_gate" /\ tasks'[t].pc # "s_gate"
                  \/ tasks[t].pc = "dc_loop" /\ tasks'[t].pc = "dc_click"

\* C16: waitForRateLimit does not return while the governor is active and
\* less than min(BASE_RATE_LIMIT_WAIT * multiplier, RATE_LIMIT_MAX) has passed
\* since the last 429, so no click on a delete button is issued in such
\* a state.
C16_GateSafety ==
    [][ \A t \in Tasks : (GateReturns(t) \/ BeginClick(t)) => ~Unexpired ]_vars
\* a comment's delete button was clicked after a 429 whose wait the gate sat out
C16_Witness ==
    /\ \E t \in Tasks : tasks[t].pc = "s_300"
    /\ consec >= 1 /\ ~rateLimitActive /\ now - lastRateLimitTime >= cappedWait

\* time passes while the governor's wait has not run out
AdvanceWait ==
    /\ Quiet
    /\ rateLimitActive /\ now - lastRateLimitTime < cappedWait
    /\ now' = now + ClockStep
    /\ UNCHANGED <<url, reqUrl, nav, comments, alive, opened, moreLoaded, loaded,
                   govVars, scriptVars, tasks, histVars>>

\* the throttled run with its timers: every timer that is due fires, time
\* passes, and 429 responses stop coming
NextGateLive ==
    \/ GateTaskStep \/ GateStep
    \/ BtnStart
    \/ \E sel \in {{"new"}} : ModalStart(sel)
    \/ (resp.seq < MaxGateResponses /\ \E status \in {200, 429} : FetchResponse(status))
    \/ AdvanceWait
SpecGateLive == /\ InitGate /\ [][NextGateLive]_vars
                /\ WF_vars(GateTaskStep) /\ WF_vars(GateStep) /\ WF_vars(AdvanceWait)

\* C17: when 429 responses stop coming, every call of waitForRateLimit
\* returns in the end, and when it has returned the governor's active flag
\* is false.
C17_GateLiveness ==
    \A t \in Tasks :
        (tasks[t].pc = "s_gate") ~> (tasks[t].pc # "s_gate" /\ ~rateLimitActive)
\* two 429 in a row, and the controller is past the gate and the wait
C17_Witness ==
    /\ consec = 2 /\ ~rateLimitActive /\ now - lastRateLimitTime >= cappedWait
    /\ \E t \in Tasks : tasks[t].pc \notin {"idle", "s_gate", "main"}

\* the throttled controller on an account without comments, and an operator
\* who stops and starts it
NextGateStop ==
    \/ GovTaskStep \/ GateStep
    \/ BtnStart \/ BtnStop \/ ModalCancel
    \/ \E sel \in {{"new"}} : ModalStart(sel)
    \/ (resp.seq < MaxGateResponses /\ \E status \in {200, 429} : FetchResponse(status))
    \/ Advance
SpecGateStop == InitGov /\ [][NextGateStop]_vars

\* C18: running is read between every suspension and resumption: a
\* controller asleep in the gate when the operator stops leaves the gate at
\* its next 5 s poll; no poll made with running false goes on waiting.
C18_CancellationReachesGate == latePolls = {}

\* a step in which the script clicks "load more comments"
MoreRequested == moreLoaded' /\ ~moreLoaded

\* C19: once running is false the controller requests no navigation: not to
\* another sort (also when the stop comes during the 30 s that precede
\* gotoSort), not to a next page, and it loads no more comments.
C19_NoNavigationAfterStop ==
    [][ (NavRequested \/ MoreRequested) => running ]_vars

\* C20: a comment for which deleteComment found no confirmation link is
\* given up at once and is not attempted again: no later click on a delete
\* button goes to it, in the same call or in a later round of processPage on
\* the same page.
C20_MissingConfirmationTerminal ==
    [][ \A t \in Tasks :
            BeginClick(t) => tasks[t].deletes[tasks[t].pos] \notin skipped ]_vars

\* a step in which btn.click() or yes.click() of task t throws
Thrown(t) == /\ throws' = throws + 1
             /\ tasks[t].pc \in {"dc_click", "s_300"} /\ tasks'[t] # tasks[t]

NextRetry ==
    \/ GateTaskStep
    \/ \E t \in Tasks : PpLong(t)
    \/ (~stopped /\ BtnStart)
    \/ \E sel \in {{"new"}} : ModalStart(sel)
    \/ BtnStop
SpecRetry == InitGate /\ [][NextRetry]_vars

\* a step in which processPage returns to runSort
PpReturns(t) == tasks[t].pc # "rs_didwork" /\ tasks'[t].pc = "rs_didwork"

\* C22: processPage returns true only when, during that call, a deletion
\* succeeded or the next page or more comments were requested; a page whose
\* candidates all ended skipped or failed, without pagination, returns false.
C22_ProcessPageProgress ==
    [][ \A t \in Tasks :
          (PpReturns(t) /\ tasks'[t].didWork)
             => (tasks[t].deleted > 0 \/ nav' # <<>> \/ tasks[t].pc = "s_more3") ]_vars

(***************************** main's catch block ***************************)
\* the places of main's loop body where code outside deleteComment's own
\* try block runs or resumes
BodyPcs == {"m_loop", "m_top", "m_ret", "s_main5", "s_gate",
            "rs_cur", "s_nav30", "s_nav5", "rs_wfc", "rs_loop", "rs_didwork", "s_loop3",
            "wfc", "wfc_body", "s_wfc",
            "pp_start", "pp_list", "pp_check", "pp_for", "pp_del", "s_long", "pp_tail",
            "s_more3", "dc_loop"}

\* an exception is raised in the loop body of main and reaches its catch
\* block: the calls in progress are abandoned, main's own locals stay, and
\* the task sleeps 10 s
MainThrow(t) ==
    /\ tasks[t].pc \in BodyPcs
    /\ tasks[t].pc \in SleepPcs => Quiet
    /\ throws < MaxThrows
    /\ throws' = throws + 1
    /\ tasks' = [tasks EXCEPT ![t] =
          [IdleTask EXCEPT !.pc = "s_err10", !.active = tasks[t].active,
                           !.idx = tasks[t].idx,
                           !.completedSorts = tasks[t].completedSorts]]
    /\ UNCHANGED <<envVars, govVars, scriptVars,
                   begun, confirmed, doneSorts, stopped, resp, consec,
                   skipped, latePolls, cursorOp>>

\* a catch block that gives the run up
Err10GivesUp(t) ==
    /\ Quiet
    /\ tasks[t].pc = "s_err10"
    /\ running' = FALSE
    /\ tasks' = [tasks EXCEPT ![t] = IdleTask]
    /\ UNCHANGED <<envVars, govVars, preservedCount, selKeys, selected, modalOpen, histVars>>

\* main: the 10 s of the catch block are over; back to `while (running)`
Err10(t) ==
    /\ Quiet
    /\ tasks[t].pc = "s_err10"
    /\ tasks' = [tasks EXCEPT ![t] = [@ EXCEPT !.pc = "m_loop"]]
    /\ UNCHANGED <<envVars, govVars, scriptVars, histVars>>

\* a run over one old comment in which the loop body of main may throw, and
\* an operator who starts, cancels, stops, and leaves a stopped run stopped
NextFault ==
    \/ GateTaskStep
    \/ \E t \in Tasks : PpLong(t) \/ MainThrow(t) \/ Err10(t)
    \/ (~stopped /\ BtnStart)
    \/ \E sel \in {{"new"}} : ModalStart(sel)
    \/ BtnStop \/ ModalCancel
SpecFault == InitGate /\ [][NextFault]_vars

\* a step in which an exception reaches main's catch block
MainThrown(t) == tasks[t].pc # "s_err10" /\ tasks'[t].pc = "s_err10"
\* a step in which main finds every sort processed and ends the run
Completes == \E t \in Tasks : /\ tasks[t].pc \in {"m_top", "m_ret"}
                              /\ tasks'[t].pc = "idle"
                              /\ url'.run = "null" /\ url'.index = "null"

\* C23: an exception raised in main's loop body is caught: running, the
\* sort index and completedSorts stay as they were, the task sleeps 10 s and
\* is back at the head of the loop with the same index; running goes from
\* true to false only by the operator's stop, the modal's cancel, or the
\* completion of all sorts.
C23_ControllerFaultTolerance ==
    [][ /\ \A t \in Tasks :
             /\ MainThrown(t) =>
                   /\ running' = running
                   /\ tasks'[t].idx = tasks[t].idx
                   /\ tasks'[t].completedSorts = tasks[t].completedSorts
             /\ (tasks[t].pc = "s_err10" /\ tasks'[t].pc # "s_err10") =>
                   /\ tasks'[t].pc = "m_loop"
                   /\ tasks'[t].idx = tasks[t].idx
                   /\ tasks'[t].completedSorts = tasks[t].completedSorts
        /\ (running /\ ~running') =>
              \/ (stopped' /\ ~stopped)
              \/ (modalOpen /\ ~modalOpen')
              \/ Completes ]_vars
\* the loop body threw after the comment was deleted; the run is still on
\* and the task sleeps in the catch block
C23_Witness ==
    /\ running /\ confirmed = {1}
    /\ \E t \in Tasks : tasks[t].pc = "s_err10" /\ tasks[t].idx = 0

\* a comment the filter lets through is still in the listing
EligibleLeft == \E i \in alive : KeepsButton(comments[i])
\* sort s stands before the index the cursor holds
BeforeCursor(s) == IndexOf(SORTS, s) < getSortIndexFromUrl
\* a step in which a freshly started main() has computed idx and completedSorts
FreshStart(t) == /\ tasks[t].pc = "main" /\ tasks'[t].pc = "m_loop"
                 /\ url.index = "0" /\ reqUrl.run = "null"

\* a run the operator starts from the modal begins at index 0 with nothing
\* completed, whichever sort the page shows
FreshStartAtZero ==
    [][ \A t \in Tasks :
          FreshStart(t) => (tasks'[t].idx = 0 /\ tasks'[t].completedSorts = {}) ]_vars

\* every sort in completedSorts was marked finished in this run or stands
\* before the index the cursor holds
CompletedMarkedOrBeforeCursor ==
    \A t \in Tasks :
        tasks[t].pc \notin {"idle", "main"} =>
            \A s \in tasks[t].completedSorts : s \in doneSorts \/ BeforeCursor(s)

\* C24: a sort is in completedSorts only if this run processed it to
\* exhaustion (it was marked finished, and no eligible comment is left in
\* the listing) or, not processed in this run, it stands before the
\* persisted index on a resume.
C24_NoPartitionSkipped ==
    \A t \in Tasks :
        tasks[t].pc \notin {"idle", "main"} =>
            \A s \in tasks[t].completedSorts :
                IF s \in doneSorts THEN ~EligibleLeft ELSE BeforeCursor(s)

\* a step in which main takes `const sort = activeSorts[idx]` (line 606)
SelectsSort(t) == tasks[t].pc = "m_top" /\ tasks'[t].sort # "-"
\* idx is the position of the first active sort that is not in completedSorts
FirstNotCompleted(r) ==
    /\ r.idx < Len(r.active)
    /\ r.active[r.idx + 1] \notin r.completedSorts
    /\ \A k \in 0..(r.idx - 1) : r.active[k + 1] \in r.completedSorts
\* completedSorts is exactly the set of the active sorts before idx
PrefixCompleted(r) == r.completedSorts = {r.active[k] : k \in 1..r.idx}
\* both ends of the step belong to one call of main
SameInstance(t) == /\ tasks[t].pc \notin {"idle", "main"}
                   /\ tasks'[t].pc \notin {"idle", "main"}

\* C25: whenever main selects the sort to run, idx is the index of the first
\* active sort that is not in completedSorts and completedSorts is exactly
\* the set of active sorts before idx; within one call of main idx never
\* decreases.
C25_IndexInvariant ==
    [][ \A t \in Tasks :
          /\ SelectsSort(t) => /\ tasks'[t].sort = tasks'[t].active[tasks'[t].idx + 1]
                               /\ FirstNotCompleted(tasks'[t])
                               /\ PrefixCompleted(tasks'[t])
          /\ SameInstance(t) => tasks'[t].idx >= tasks[t].idx ]_vars
\* the operator opens the listing at ?sort=hot and selects sorts from there;
\* an exception may reach main's catch block
InitIdx == InitWith(RunListings, {"hot"})
NextIdx ==
    \/ TaskStep
    \/ \E t \in Tasks : MainThrow(t) \/ Err10(t)
    \/ BtnStart
    \/ \E sel \in {SortSet, {"hot", "top"}} : ModalStart(sel)
    \/ Reload \/ DomLoad
SpecIdx == InitIdx /\ [][NextIdx]_vars

\* a call of main that resumed past the first sort selects the sort to run
C25_ResumeWitness ==
    \E t \in Tasks : /\ tasks[t].pc = "rs_cur"
                     /\ tasks[t].idx = 1
                     /\ tasks[t].completedSorts = {"new"}
                     /\ doneSorts = {"hot"}

\* a step in which the task lists the delete buttons of the page
ListsCandidates(t) == /\ tasks[t].pc \in {"pp_list", "wfc_body"}
                      /\ tasks'[t].pc # tasks[t].pc
\* the task is in runSort(sort) and the page shows another sort
OffSort(t) == tasks[t].sort # "-" /\ getCurrentSort # tasks[t].sort
\* a step in which runSort's gotoSort requests its navigation
GotoSortStep(t) == tasks[t].pc = "s_nav30" /\ tasks'[t].pc = "s_nav5"

\* C26: while the page shows a sort other than the one runSort was called
\* with, the task lists no delete buttons and clicks nothing; runSort then
\* only requests the navigation to its sort, the URL carrying the cursor as
\* it is persisted, and returns false (not finished).
C26_EnterBeforeProcessing ==
    [][ \A t \in Tasks :
          /\ (ListsCandidates(t) \/ BeginClick(t) \/ ConfirmClick(t)) => ~OffSort(t)
          /\ (tasks[t].pc = "rs_cur" /\ OffSort(t)
                                      /\ tasks'[t].pc \notin {"rs_cur", "s_err10"})
                => (tasks'[t].pc = "s_nav30" /\ preservedCount' = preservedCount)
          /\ (GotoSortStep(t) /\ NavRequested)
                => /\ nav'[1].sort = tasks[t].sort
                   /\ runningOf(nav'[1]) = getRunningStateFromUrl
                   /\ sortIndexOf(nav'[1]) = getSortIndexFromUrl
          /\ (tasks[t].pc = "s_nav5" /\ tasks'[t].pc \notin {"s_nav5", "s_err10"}
                                       /\ ~PageLoads)
                => (tasks'[t].pc = "m_ret" /\ ~tasks'[t].finished) ]_vars

\* a step in which processPage starts its long pause
LongPause(t) == tasks[t].pc = "pp_del" /\ tasks'[t].pc = "s_long"

\* C27: within one call of processPage a long pause starts only when the
\* number of successful deletions so far is a positive multiple of a value
\* rand(minN, maxN) can draw; none starts while that number is 0.
C27_PacingPause ==
    [][ \A t \in Tasks :
          LongPause(t) =>
             /\ tasks'[t].deleted > 0
             /\ \E n \in LONG_DELAY_AFTER[1]..LONG_DELAY_AFTER[2] :
                    tasks'[t].deleted % n = 0 ]_vars

\* a task sleeps in waitForRateLimit and the check would keep it there
GateWaiting == isRateLimited /\ \E t \in Tasks : tasks[t].pc = "s_gate"

EmptyStartDone == /\ selKeys /\ selected = {}
                  /\ ~modalOpen
                  /\ \A t \in Tasks : tasks[t].pc = "idle"

\* C29: after the operator confirmed the start modal with no sort selected,
\* no run exists: running is false and the URL holds no cursor with
\* running = true, so that a reload of the page starts nothing.
C29_EmptySelectionStartsNothing ==
    EmptyStartDone => (~running /\ ~getRunningStateFromUrl)

\* the operator deselects "new" and "controversial" in the modal
OperatorSelection == {"hot", "top"}
InitSel == InitWith(RunListings, {"null", "hot"})
NextSel ==
    \/ TaskStep
    \/ BtnStart
    \/ ModalStart(OperatorSelection)
    \/ Reload \/ DomLoad
SpecSel == InitSel /\ [][NextSel]_vars

\* C30: a sort the operator deselected at the start is never the sort
\* runSort works on and never the sort a navigation goes to, also after the
\* controller resumed from the cursor on a reloaded page.
C30_SelectionRespected ==
    /\ \A t \in Tasks : tasks[t].sort \in OperatorSelection \cup {"-"}
    /\ (nav # <<>> /\ nav[1].sort # url.sort) => nav[1].sort \in OperatorSelection

====
